---- MODULE Spec2Model ----
(***************************************************************************)
(* A model of shiba-jit: the IR builder (src/src/ir.rs), the CFG analysis  *)
(* and liveness queries (src/src/reg_alloc.rs), the register assignment    *)
(* and the x86-64 emitter (src/src/codegen/x86_64.rs).                     *)
(*                                                                         *)
(* Indices are the program's: BasicBlockIndex and NodeIndex count from 0,  *)
(* so block i is blocks[i + 1]; RegisterIndex counts from 1 (the counter   *)
(* is incremented before it is read).                                      *)
(***************************************************************************)
EXTENDS Integers, Sequences, FiniteSets, TLC

VARIABLES
    pc,             \* position in the pipeline: "build", "finalized", "panic", ...
    blocks,         \* BasicBlockManager.blocks: Seq of [parents, exits, code]
    chan,           \* messages in flight on the mpsc channel: Seq of <<src, target>>
    LAST_REGISTER,  \* the process-wide register counter
    returned,       \* history: the register indices the helpers returned, in order
    raw_defs,       \* history: push_instruction was given a register-defining IR
    nops,           \* history: the number of builder calls made so far
    failure,        \* the panic message once pc = "panic", "" before
    graph_data,     \* GraphData: graph, reduced_graph, depth_map, root
    query,          \* GraphQuery: dominators, reduced_reachability, back_edges, maps
    walk_stack,     \* pending calls of build_register_map_inner, innermost first
    seen,           \* the blocks build_register_map_inner has entered
    reg_map,        \* the register map being built (out / reg_map)
    visit,          \* the call that ran last: its block and its maps on return
    emitted,        \* the assembled function: its instructions and block labels
    cpu             \* the machine running the emitted function

builderVars == <<blocks, chan, LAST_REGISTER, returned, raw_defs, nops>>

analysisVars == <<graph_data, query, walk_stack, seen, reg_map, visit>>

machineVars == <<emitted, cpu>>

vars == <<pc, failure, builderVars, analysisVars, machineVars>>

----------------------------------------------------------------------------
(* Bounds of the model *)

MaxBlocks == 2
MaxOps == 3
MaxNodes == 3
MaxRegs == 2
MaxExits == 2
MaxUses == 1
MaxPressure == 11
MaxConstantLen == 300
StackWords == 72

----------------------------------------------------------------------------
(* IR values and instructions (ir.rs, enum Value and enum IR) *)

Register(ri) == [tag |-> "Register", idx |-> ri]

Immediate(t, v) == [tag |-> "Immediate", type |-> t, value |-> v]

u32(v) == Immediate("U32", v)

IRAdd(d, v1, v2) == [op |-> "Add", dest_register |-> d, src1 |-> v1, src2 |-> v2]

IRSubtract(d, v1, v2) == [op |-> "Subtract", dest_register |-> d, src1 |-> v1, src2 |-> v2]

IRMultiply(d, v1, v2) == [op |-> "Multiply", dest_register |-> d, src1 |-> v1, src2 |-> v2]

IRDivide(d, v1, v2) == [op |-> "Divide", dest_register |-> d, src1 |-> v1, src2 |-> v2]

IRStore(d, v) == [op |-> "Store", dest_register |-> d, src_register |-> v]

IRJump(t) == [op |-> "Jump", bb_idx |-> t]

IRAlloca(d, t, al) == [op |-> "Alloca", dest_register |-> d, type |-> t, alignment |-> al]

IRLoad(d, s) == [op |-> "Load", dest_register |-> d, src_register |-> s]

IRJumpIfEqual(s, t, f) ==
    [op |-> "JumpIfEqual", src_register |-> s, true_bb_idx |-> t, false_bb_idx |-> f]

IRReturn == [op |-> "Return"]

IRPrintConstant(c) == [op |-> "PrintConstant", constant_ref |-> c]

EmptyBlock == [parents |-> <<>>, exits |-> <<>>, code |-> <<>>]

Range(s) == {s[i] : i \in 1..Len(s)}

BlockIndices(bs) == 0..(Len(bs) - 1)

----------------------------------------------------------------------------
(* BasicBlock and BasicBlockManager operations *)

add_parent(bs, b, parent) ==
    [bs EXCEPT ![b + 1].parents = Append(@, parent)]

\* A drain that mirrors the edge onto the wrong endpoint
RECURSIVE process_messages_swapped(_, _)
process_messages_swapped(bs, msgs) ==
    IF msgs = <<>> THEN bs
    ELSE process_messages_swapped(add_parent(bs, Head(msgs)[1], Head(msgs)[2]), Tail(msgs))

\* A drain that applies every notice twice
RECURSIVE process_messages_twice(_, _)
process_messages_twice(bs, msgs) ==
    IF msgs = <<>> THEN bs
    ELSE process_messages_twice(
            add_parent(add_parent(bs, Head(msgs)[2], Head(msgs)[1]), Head(msgs)[2], Head(msgs)[1]),
            Tail(msgs))

\* BasicBlockManager::process_messages (ir.rs 281-289): every pending Jump(src, target)
\* appends src to blocks[target].parents, in the order sent
RECURSIVE process_messages(_, _)
process_messages(bs, msgs) ==
    IF msgs = <<>> THEN bs
    ELSE process_messages(add_parent(bs, Head(msgs)[2], Head(msgs)[1]), Tail(msgs))

\* A helper that reads the counter without bumping it
NextRegisterStuck(lr) == lr

\* The counter update of add/subtract (ir.rs 199-203, 214-218): *lr += 1; *lr
NextRegister(lr) == lr + 1

\* BasicBlock::iter_defined_registers: the destination registers of a block, in code order
RECURSIVE iter_defined_registers(_)
iter_defined_registers(code) ==
    IF code = <<>> THEN <<>>
    ELSE (IF Head(code).op \in {"Alloca", "Add", "Subtract", "Multiply", "Divide"}
             THEN <<Head(code).dest_register>>
          ELSE IF Head(code).op = "Load" /\ Head(code).dest_register.tag = "Register"
             THEN <<Head(code).dest_register.idx>>
          ELSE <<>>) \o iter_defined_registers(Tail(code))

\* All definitions of the program, in the order GraphQuery::new meets them
RECURSIVE AllDefinitions(_)
AllDefinitions(bs) ==
    IF bs = <<>> THEN <<>>
    ELSE iter_defined_registers(Head(bs).code) \o AllDefinitions(Tail(bs))

\* The assertion of GraphQuery::new (reg_alloc.rs 55-58): define_map.insert finds no
\* earlier entry for any defined register
DefineMapAssertHolds(bs) ==
    LET ds == AllDefinitions(bs)
    IN \A i, j \in 1..Len(ds) : i # j => ds[i] # ds[j]


----------------------------------------------------------------------------
(* CFG analysis (reg_alloc.rs).  A graph is the sequence of its edges <<a, b>> in  *)
(* the order they were added; a node is the index of its block.                   *)

\* StableGraph::update_edge: add the edge unless it is there already
update_edge(g, e) == IF e \in Range(g) THEN g ELSE Append(g, e)

RECURSIVE UpdateEdges(_, _)
UpdateEdges(g, es) ==
    IF es = <<>> THEN g ELSE UpdateEdges(update_edge(g, Head(es)), Tail(es))

\* The edges compute_graph adds for block b (reg_alloc.rs 168-180): one from each
\* parent, then one to each exit
BlockEdges(bs, b) ==
    [i \in 1..Len(bs[b + 1].parents) |-> <<bs[b + 1].parents[i], b>>]
    \o [i \in 1..Len(bs[b + 1].exits) |-> <<b, bs[b + 1].exits[i]>>]

RECURSIVE GraphFrom(_, _, _)
GraphFrom(bs, b, g) ==
    IF b >= Len(bs) THEN g ELSE GraphFrom(bs, b + 1, UpdateEdges(g, BlockEdges(bs, b)))

Reverse(s) == [i \in 1..Len(s) |-> s[Len(s) + 1 - i]]

\* StableGraph::neighbors: the targets of the outgoing edges of n, newest edge first
neighbors(g, n) ==
    LET out == SelectSeq(g, LAMBDA e : e[1] = n)
    IN Reverse([i \in 1..Len(out) |-> out[i][2]])

remove_edge(g, e) == SelectSeq(g, LAMBDA x : x # e)

\* The label compute_reduced_graph_and_depth_map records for a node discovered from
\* a node of the given generation (reg_alloc.rs 220): seen.insert(neigh, generation)
SeenLabel(generation) == generation

\* The body of "for neigh in graph.neighbors(node)" (reg_alloc.rs 213-223);
\* st = [reduced_graph, seen, stack]
RECURSIVE VisitNeighbors(_, _, _, _)
VisitNeighbors(ns, node, generation, st) ==
    IF ns = <<>> THEN st
    ELSE LET neigh == Head(ns)
             st2 == IF neigh \in DOMAIN st.seen
                       THEN IF st.seen[neigh] < generation
                               THEN [st EXCEPT !.reduced_graph = remove_edge(@, <<node, neigh>>)]
                               ELSE st
                       ELSE [st EXCEPT !.seen = [x \in DOMAIN @ \cup {neigh} |->
                                                   IF x = neigh THEN SeenLabel(generation) ELSE @[x]],
                                       !.stack = Append(@, <<neigh, generation + 1>>)]
         IN VisitNeighbors(Tail(ns), node, generation, st2)

\* "while let Some((node, generation)) = stack.pop_front()" (reg_alloc.rs 212-224)
RECURSIVE BfsLoop(_, _)
BfsLoop(g, st) ==
    IF st.stack = <<>> THEN st
    ELSE LET top == Head(st.stack)
         IN BfsLoop(g, VisitNeighbors(neighbors(g, top[1]), top[1], top[2],
                                      [st EXCEPT !.stack = Tail(@)]))

\* compute_reduced_graph_and_depth_map (reg_alloc.rs 198-227)
compute_reduced_graph_and_depth_map(g, start) ==
    LET st == BfsLoop(g, [reduced_graph |-> g,
                          seen |-> [x \in {start} |-> 0],
                          stack |-> <<<<start, 0>>>>])
    IN [reduced_graph |-> st.reduced_graph, depth_map |-> st.seen]

\* compute_graph (reg_alloc.rs 161-195); bbm.start is BasicBlockIndex(0)
compute_graph(bs) ==
    LET g == GraphFrom(bs, 0, <<>>)
        rd == compute_reduced_graph_and_depth_map(g, 0)
    IN [graph |-> g, reduced_graph |-> rd.reduced_graph, depth_map |-> rd.depth_map,
        root |-> 0, nodes |-> BlockIndices(bs)]

----------------------------------------------------------------------------
(* GraphQuery (reg_alloc.rs 42-120) *)

EmptyMap == [x \in {} |-> 0]

Put(m, k, v) == [x \in DOMAIN m \cup {k} |-> IF x = k THEN v ELSE m[x]]

Succ(g, ns) == {e[2] : e \in {x \in Range(g) : x[1] \in ns}}

\* The nodes a depth-first search of g started at n discovers (n included)
RECURSIVE ReachFrom(_, _)
ReachFrom(g, ns) ==
    LET more == ns \cup Succ(g, ns)
    IN IF more = ns THEN ns ELSE ReachFrom(g, more)

Reach(g, n) == ReachFrom(g, {n})

\* The edges the search from n reports: every edge leaving a discovered node
VisitedEdges(g, n) == {e \in Range(g) : e[1] \in Reach(g, n)}

\* depth_map[&s] and depth_map[&d] index a BTreeMap: a missing key panics
DepthLookupPanics(gd) ==
    \E n \in gd.nodes : \E e \in VisitedEdges(gd.reduced_graph, n) :
        e[1] \notin DOMAIN gd.depth_map \/ e[2] \notin DOMAIN gd.depth_map

\* The graph compute_reduced_reachability_and_back_edges searches (reg_alloc.rs 137):
\* depth_first_search(&self.reduced_graph, ...)
BackEdgeSearchGraph(gd) == gd.reduced_graph

\* GraphData::compute_reduced_reachability_and_back_edges (reg_alloc.rs 125-158)
compute_reduced_reachability_and_back_edges(gd) ==
    [rr |-> [n \in gd.nodes |-> Reach(gd.reduced_graph, n)],
     back_edges |-> [n \in gd.nodes |->
        {e[2] : e \in {x \in VisitedEdges(BackEdgeSearchGraph(gd), n) :
                          gd.depth_map[x[1]] > gd.depth_map[x[2]]}}]]

\* The nodes reachable from the root without entering node d
ReachAvoiding(g, root, d) ==
    IF root = d THEN {}
    ELSE ReachFrom(SelectSeq(g, LAMBDA e : e[1] # d /\ e[2] # d), {root})

\* petgraph simple_fast and Dominators::strict_dominators: defined for the nodes
\* reachable from the root; d strictly dominates n when every path from the root to
\* n passes through d
simple_fast(g, root) ==
    LET reachable == Reach(g, root)
    IN [n \in reachable |-> {d \in reachable \ {n} : n \notin ReachAvoiding(g, root, d)}]

\* The registers an instruction reads
UsedRegistersOf(inst) ==
    LET regs(vs) == {v.idx : v \in {x \in vs : x.tag = "Register"}}
    IN CASE inst.op \in {"Add", "Subtract", "Multiply", "Divide"} -> regs({inst.src1, inst.src2})
         [] inst.op = "Load" -> regs({inst.src_register})
         [] inst.op = "Store" -> regs({inst.dest_register, inst.src_register})
         [] inst.op \in {"JumpIfEqual", "JumpIfNotEqual"} -> regs({inst.src_register})
         [] OTHER -> {}

\* BasicBlock::iter_used_registers: the registers a block reads
iter_used_registers(code) == UNION {UsedRegistersOf(code[i]) : i \in 1..Len(code)}

AllUsedRegisters(bs) == UNION {iter_used_registers(bs[i].code) : i \in 1..Len(bs)}

\* use_map (reg_alloc.rs 51-54): only registers that are read somewhere get an entry
UseMap(bs) ==
    [r \in AllUsedRegisters(bs) |->
        {b \in BlockIndices(bs) : r \in iter_used_registers(bs[b + 1].code)}]

\* define_map (reg_alloc.rs 55-58)
DefineMap(bs) ==
    [r \in Range(AllDefinitions(bs)) |->
        CHOOSE b \in BlockIndices(bs) : r \in Range(iter_defined_registers(bs[b + 1].code))]

EmptyGraphData ==
    [graph |-> <<>>, reduced_graph |-> <<>>, depth_map |-> EmptyMap, root |-> 0, nodes |-> {}]

EmptyQuery ==
    [dominators |-> EmptyMap, reduced_reachability |-> EmptyMap, back_edges |-> EmptyMap,
     use_map |-> EmptyMap, define_map |-> EmptyMap]

\* GraphQuery::new (reg_alloc.rs 43-68), when it does not panic
GraphQueryNew(gd, bs) ==
    LET rb == compute_reduced_reachability_and_back_edges(gd)
    IN [dominators |-> simple_fast(gd.graph, gd.root),
        reduced_reachability |-> rb.rr,
        back_edges |-> rb.back_edges,
        use_map |-> UseMap(bs),
        define_map |-> DefineMap(bs)]

\* GraphQuery::is_live_in (reg_alloc.rs 70-88).  It takes the register alone: the
\* block the allocator passes (x86_64.rs 81) has no parameter to go to.
is_live_in_panics(q, idx) ==
    \/ idx \notin DOMAIN q.define_map
    \/ q.define_map[idx] \notin DOMAIN q.dominators
    \/ idx \notin DOMAIN q.use_map

is_live_in(q, idx) ==
    LET ni == q.define_map[idx]
        strict_dominators == q.dominators[ni]
        uses_set == q.use_map[idx]
    IN \E t \in q.back_edges[ni] \cap strict_dominators :
          q.reduced_reachability[t] \cap uses_set # {}

\* GraphQuery::is_live_out (reg_alloc.rs 90-119)
is_live_out_panics(q, idx, node) ==
    \/ idx \notin DOMAIN q.define_map
    \/ IF q.define_map[idx] = node
          THEN idx \notin DOMAIN q.use_map
          ELSE \/ node \notin DOMAIN q.dominators
               \/ /\ q.define_map[idx] \in q.dominators[node]
                  /\ q.back_edges[q.define_map[idx]] \cap q.dominators[q.define_map[idx]] # {}
                  /\ idx \notin DOMAIN q.use_map

is_live_out(q, idx, node) ==
    LET ni == q.define_map[idx]
    IN IF ni = node
          THEN {n \in q.use_map[idx] : n # node} # {}
          ELSE /\ ni \in q.dominators[node]
               /\ \E t \in q.back_edges[ni] \cap q.dominators[ni] :
                    LET u == IF t = node /\ node \notin q.back_edges[node]
                                THEN q.use_map[idx] \ {node} ELSE q.use_map[idx]
                    IN q.reduced_reachability[t] \cap u # {}

----------------------------------------------------------------------------
(* Register assignment (x86_64.rs 30-141) *)

\* enum MachineRegister (x86_64.rs 124-141)
Rax == 0
Rcx == 1
Rdx == 2
Rbx == 3
Rsp == 4
Rbp == 5
Rsi == 6
Rdi == 7
R8 == 8
R9 == 9
R10 == 10
R11 == 11
R12 == 12
R13 == 13
R14 == 14
R15 == 15

\* available_registers as compute_register_map fills it (x86_64.rs 31-41)
InitialPool == <<Rdx, Rbx, R8, R9, R10, R11, R12, R13, R14, R15>>

MinOf(S) == CHOOSE x \in S : \A y \in S : x <= y

Without(m, k) == [x \in DOMAIN m \ {k} |-> m[x]]

\* One of the two release loops (x86_64.rs 79-85, 103-109) over the keys of cm_copy
\* in BTreeMap order; dead(k) says the liveness query answered false.
\* st = [current_map, available_registers]
RECURSIVE ReleaseLoop(_, _, _)
ReleaseLoop(keys, dead(_), st) ==
    IF keys = {} THEN st
    ELSE LET k == MinOf(keys)
             st2 == IF dead(k)
                       THEN [current_map |-> Without(st.current_map, k),
                             available_registers |->
                                 Append(st.available_registers, st.current_map[k])]
                       ELSE st
         IN ReleaseLoop(keys \ {k}, dead, st2)

\* An allocation loop that hands out the front of the pool without popping it
RECURSIVE AllocateLoopKeepsPool(_, _)
AllocateLoopKeepsPool(defs, st) ==
    IF defs = <<>> THEN st
    ELSE AllocateLoopKeepsPool(Tail(defs),
            [current_map |-> Put(st.current_map, Head(defs), Head(st.available_registers)),
             available_registers |-> st.available_registers,
             reg_map |-> Put(st.reg_map, Head(defs), Head(st.available_registers)),
             failure |-> ""])

\* The allocation loop (x86_64.rs 90-98); st = [current_map, available_registers,
\* reg_map, failure]
RECURSIVE AllocateLoop(_, _)
AllocateLoop(defs, st) ==
    IF defs = <<>> \/ st.failure # "" THEN st
    ELSE LET declared_reg == Head(defs)
         IN IF st.available_registers = <<>>
               THEN [st EXCEPT !.failure = "Ran out of machine registers"]
            ELSE IF declared_reg \in DOMAIN st.current_map \/ declared_reg \in DOMAIN st.reg_map
               THEN [st EXCEPT !.failure = "assertion failed: existing_reg.is_none()"]
            ELSE AllocateLoop(Tail(defs),
                    [current_map |-> Put(st.current_map, declared_reg, Head(st.available_registers)),
                     available_registers |-> Tail(st.available_registers),
                     reg_map |-> Put(st.reg_map, declared_reg, Head(st.available_registers)),
                     failure |-> ""])

\* The body of build_register_map_inner for a block not seen before (x86_64.rs 75-109):
\* release at entry, allocate the definitions, release at exit
VisitBlock(bs, q, cur_idx, out, call) ==
    LET entry_panics == \E k \in DOMAIN call.current_map : is_live_in_panics(q, k)
        s1 == ReleaseLoop(DOMAIN call.current_map, LAMBDA k : ~is_live_in(q, k),
                          [current_map |-> call.current_map,
                           available_registers |-> call.available_registers])
        s2 == AllocateLoop(iter_defined_registers(bs[cur_idx + 1].code),
                           [current_map |-> s1.current_map,
                            available_registers |-> s1.available_registers,
                            reg_map |-> out, failure |-> ""])
        exit_panics == \E k \in DOMAIN s2.current_map : is_live_out_panics(q, k, cur_idx)
        s3 == ReleaseLoop(DOMAIN s2.current_map, LAMBDA k : ~is_live_out(q, k, cur_idx),
                          [current_map |-> s2.current_map,
                           available_registers |-> s2.available_registers])
    IN IF entry_panics
          THEN [failure |-> "is_live_in: key not found", reg_map |-> out,
                current_map |-> call.current_map,
                available_registers |-> call.available_registers]
       ELSE IF s2.failure # ""
          THEN [failure |-> s2.failure, reg_map |-> s2.reg_map,
                current_map |-> s2.current_map,
                available_registers |-> s2.available_registers]
       ELSE IF exit_panics
          THEN [failure |-> "is_live_out: key not found", reg_map |-> s2.reg_map,
                current_map |-> s2.current_map,
                available_registers |-> s2.available_registers]
       ELSE [failure |-> "", reg_map |-> s2.reg_map,
             current_map |-> s3.current_map,
             available_registers |-> s3.available_registers]

----------------------------------------------------------------------------
(* The builder as a state machine *)

EmptyVisit == [cur_idx |-> 0, current_map |-> EmptyMap, available_registers |-> <<>>]

EmptyEmitted == [failure |-> "", ops |-> <<>>, bb_map |-> EmptyMap]

EmptyCpu ==
    [regs |-> EmptyMap, mem |-> EmptyMap, ip |-> 0, zf |-> FALSE, out |-> <<>>,
     status |-> "off"]

AnalysisNotStarted ==
    /\ emitted = EmptyEmitted
    /\ cpu = EmptyCpu
    /\ graph_data = EmptyGraphData
    /\ query = EmptyQuery
    /\ walk_stack = <<>>
    /\ seen = {}
    /\ reg_map = EmptyMap
    /\ visit = EmptyVisit

Init ==
    /\ pc = "build"
    /\ blocks = <<>>
    /\ chan = <<>>
    /\ LAST_REGISTER = 0
    /\ returned = <<>>
    /\ raw_defs = FALSE
    /\ nops = 0
    /\ failure = ""
    /\ AnalysisNotStarted

new_basic_block ==
    /\ pc \in {"build", "finalized"}
    /\ Len(blocks) < MaxBlocks
    /\ blocks' = Append(process_messages(blocks, chan), EmptyBlock)
    /\ chan' = <<>>
    /\ pc' = "build"
    /\ UNCHANGED <<LAST_REGISTER, returned, raw_defs, nops, failure, analysisVars, machineVars>>

\* The operands a client can pass: an immediate, or a register a helper returned.
Operands == {u32(2)} \cup {Register(returned[i]) : i \in 1..Len(returned)}

\* The register the client got last, or an immediate when it has none yet
LastOperand == IF returned = <<>> THEN u32(1) ELSE Register(returned[Len(returned)])

\* BasicBlock::add (ir.rs 198-211): bump the counter, push IR::Add, return the register
add(b, v1, v2) ==
    /\ pc \in {"build", "finalized"}
    /\ nops < MaxOps
    /\ nops' = nops + 1
    /\ LAST_REGISTER' = NextRegister(LAST_REGISTER)
    /\ blocks' = [blocks EXCEPT ![b + 1].code = Append(@, IRAdd(LAST_REGISTER', v1, v2))]
    /\ returned' = Append(returned, LAST_REGISTER')
    /\ pc' = "build"
    /\ UNCHANGED <<chan, raw_defs, failure, analysisVars, machineVars>>

\* BasicBlock::subtract (ir.rs 213-226)
subtract(b, v1, v2) ==
    /\ pc \in {"build", "finalized"}
    /\ nops < MaxOps
    /\ nops' = nops + 1
    /\ LAST_REGISTER' = NextRegister(LAST_REGISTER)
    /\ blocks' = [blocks EXCEPT ![b + 1].code = Append(@, IRSubtract(LAST_REGISTER', v1, v2))]
    /\ returned' = Append(returned, LAST_REGISTER')
    /\ pc' = "build"
    /\ UNCHANGED <<chan, raw_defs, failure, analysisVars, machineVars>>

\* BasicBlock::jump (ir.rs 228-235): record the exit, push the terminator, post the notice
jump(b, target) ==
    /\ pc \in {"build", "finalized"}
    /\ nops < MaxOps
    /\ nops' = nops + 1
    /\ blocks' = [blocks EXCEPT ![b + 1].exits = Append(@, target),
                                ![b + 1].code = Append(@, IRJump(target))]
    /\ chan' = Append(chan, <<b, target>>)
    /\ pc' = "build"
    /\ UNCHANGED <<LAST_REGISTER, returned, raw_defs, failure, analysisVars, machineVars>>

\* BasicBlock::add_parent called by the client (ir.rs 175-178)
client_add_parent(b, parent) ==
    /\ pc \in {"build", "finalized"}
    /\ nops < MaxOps
    /\ nops' = nops + 1
    /\ blocks' = add_parent(blocks, b, parent)
    /\ pc' = "build"
    /\ UNCHANGED <<chan, LAST_REGISTER, returned, raw_defs, failure, analysisVars, machineVars>>

DefinesRegister(inst) == inst.op \in {"Alloca", "Add", "Subtract", "Multiply", "Divide", "Load"}

\* The instructions a client hands to push_instruction: any IR value it can build.
\* RegisterIndex has a private field, so a destination is a register some helper returned.
PushableInstructions ==
    {IRPrintConstant(0)}
    \cup {IRJump(t) : t \in BlockIndices(blocks)}
    \cup {IRAdd(returned[i], u32(2), u32(2)) : i \in 1..Len(returned)}

\* BasicBlock::push_instruction (ir.rs 180-183)
push_instruction(b, inst) ==
    /\ pc \in {"build", "finalized"}
    /\ nops < MaxOps
    /\ nops' = nops + 1
    /\ blocks' = [blocks EXCEPT ![b + 1].code = Append(@, inst)]
    /\ raw_defs' = (raw_defs \/ DefinesRegister(inst))
    /\ pc' = "build"
    /\ UNCHANGED <<chan, LAST_REGISTER, returned, failure, analysisVars, machineVars>>

\* Context::finalize (ir.rs 127-130): BasicBlockManager::finalize drains the channel,
\* then compute_graph indexes node_lookup[&bbm.start], which panics with no block.
finalize ==
    /\ pc \in {"build", "finalized"}
    /\ blocks' = process_messages(blocks, chan)
    /\ chan' = <<>>
    /\ pc' = IF blocks = <<>> THEN "panic" ELSE "finalized"
    /\ failure' = IF blocks = <<>> THEN "node_lookup: key not found" ELSE ""
    /\ UNCHANGED <<LAST_REGISTER, returned, raw_defs, nops, analysisVars, machineVars>>

\* Context::new (ir.rs 102-107): a fresh Context with no block and its own channel;
\* LAST_REGISTER is a static of the process (ir.rs 140-142) and keeps its value
Context_new ==
    /\ pc \in {"build", "finalized"}
    /\ blocks' = <<>>
    /\ chan' = <<>>
    /\ pc' = "build"
    /\ UNCHANGED <<LAST_REGISTER, returned, raw_defs, nops, failure, analysisVars, machineVars>>

Next ==
    \/ Context_new
    \/ new_basic_block
    \/ \E b \in BlockIndices(blocks), v1 \in Operands : add(b, v1, u32(1))
    \/ \E b \in BlockIndices(blocks),  v2 \in {LastOperand} : subtract(b, u32(4), v2)
    \/ \E b \in BlockIndices(blocks), t \in BlockIndices(blocks) : jump(b, t)
    \/ \E b \in BlockIndices(blocks), p \in BlockIndices(blocks) : client_add_parent(b, p)
    \/ \E b \in BlockIndices(blocks) : \E inst \in PushableInstructions : push_instruction(b, inst)
    \/ finalize

Spec == Init /\ [][Next]_vars

----------------------------------------------------------------------------
(* The analysis pipeline of generate_code: compute_register_map (x86_64.rs 30-58) *)

\* compute_graph as compute_register_map calls it (x86_64.rs 44)
compute_graph_step ==
    /\ pc = "finalized"
    /\ graph_data' = compute_graph(blocks)
    /\ pc' = "graph"
    /\ UNCHANGED <<failure, builderVars, query, walk_stack, seen, reg_map, visit, machineVars>>

\* GraphQuery::new (x86_64.rs 45, reg_alloc.rs 43-68)
GraphQuery_new ==
    /\ pc = "graph"
    /\ IF DepthLookupPanics(graph_data)
          THEN /\ pc' = "panic"
               /\ failure' = "depth_map: key not found"
               /\ query' = query
       ELSE IF ~DefineMapAssertHolds(blocks)
          THEN /\ pc' = "panic"
               /\ failure' = "assertion failed: result == None"
               /\ query' = query
       ELSE /\ pc' = "query"
            /\ failure' = ""
            /\ query' = GraphQueryNew(graph_data, blocks)
    /\ UNCHANGED <<builderVars, graph_data, walk_stack, seen, reg_map, visit, machineVars>>

\* The walk state at the first call of build_register_map_inner (x86_64.rs 31-55)
FirstCall ==
    [walk_stack |-> <<[cur_idx |-> 0, current_map |-> EmptyMap,
                       available_registers |-> InitialPool]>>,
     seen |-> {}, reg_map |-> EmptyMap, visit |-> EmptyVisit, failure |-> ""]

\* The first call of build_register_map_inner (x86_64.rs 47-55)
compute_register_map ==
    /\ pc = "query"
    /\ walk_stack' = FirstCall.walk_stack
    /\ seen' = FirstCall.seen
    /\ reg_map' = FirstCall.reg_map
    /\ pc' = "walk"
    /\ UNCHANGED <<failure, builderVars, graph_data, query, visit, machineVars>>

\* A call of build_register_map_inner without the test of seen: it re-enters cur_idx's
\* exits whether or not the block was entered before
WalkStepNoSeen(bs, q, st) ==
    LET call == Head(st.walk_stack)
        exits == bs[call.cur_idx + 1].exits
    IN [st EXCEPT !.walk_stack =
                     [i \in 1..Len(exits) |-> [call EXCEPT !.cur_idx = exits[i]]] \o Tail(@),
                  !.seen = @ \cup {call.cur_idx}]

\* One call of build_register_map_inner (x86_64.rs 60-121) on the walk state st: the
\* calls it makes for the exits run next, before the callers' remaining exits
WalkStep(bs, q, st) ==
    LET call == Head(st.walk_stack)
        cur_idx == call.cur_idx
    IN IF cur_idx \in st.seen
          THEN [st EXCEPT !.walk_stack = Tail(st.walk_stack)]
          ELSE LET r == VisitBlock(bs, q, cur_idx, st.reg_map, call)
                   exits == bs[cur_idx + 1].exits
                   calls == [i \in 1..Len(exits) |->
                               [cur_idx |-> exits[i], current_map |-> r.current_map,
                                available_registers |-> r.available_registers]]
               IN [walk_stack |-> IF r.failure # "" THEN st.walk_stack
                                  ELSE calls \o Tail(st.walk_stack),
                   seen |-> st.seen \cup {cur_idx},
                   reg_map |-> r.reg_map,
                   visit |-> [cur_idx |-> cur_idx, current_map |-> r.current_map,
                              available_registers |-> r.available_registers],
                   failure |-> r.failure]

\* compute_register_map from its first call of build_register_map_inner to the
\* return of that call (x86_64.rs 47-57)
RECURSIVE WalkLoop(_, _, _)
WalkLoop(bs, q, st) ==
    IF st.walk_stack = <<>> \/ st.failure # "" THEN st
    ELSE WalkLoop(bs, q, WalkStep(bs, q, st))

build_register_map_inner ==
    /\ pc = "walk"
    /\ walk_stack # <<>>
    /\ LET st == WalkStep(blocks, query,
                          [walk_stack |-> walk_stack, seen |-> seen, reg_map |-> reg_map,
                           visit |-> visit, failure |-> failure])
       IN /\ walk_stack' = st.walk_stack
          /\ seen' = st.seen
          /\ reg_map' = st.reg_map
          /\ visit' = st.visit
          /\ failure' = st.failure
          /\ pc' = IF st.failure # "" THEN "panic"
                   ELSE IF st.walk_stack = <<>> THEN "mapped" ELSE "walk"
    /\ UNCHANGED <<builderVars, graph_data, query, machineVars>>

NextAnalysis ==
    \/ compute_graph_step
    \/ GraphQuery_new
    \/ compute_register_map
    \/ build_register_map_inner

----------------------------------------------------------------------------
(* Machine words: 64-bit values as four 16-bit limbs, least significant first *)

\* The 64-bit word of a small natural number
Word(n) == <<n % 65536, (n \div 65536) % 65536, 0, 0>>

\* add Ra, Ra: 64-bit addition, wrapping
Add64(a, b) ==
    LET s1 == a[1] + b[1]
        s2 == a[2] + b[2] + (s1 \div 65536)
        s3 == a[3] + b[3] + (s2 \div 65536)
        s4 == a[4] + b[4] + (s3 \div 65536)
    IN <<s1 % 65536, s2 % 65536, s3 % 65536, s4 % 65536>>

Not64(a) == <<65535 - a[1], 65535 - a[2], 65535 - a[3], 65535 - a[4]>>

\* sub Ra, Ra: 64-bit subtraction, wrapping
Sub64(a, b) == Add64(Add64(a, Not64(b)), Word(1))

\* A write to a 32-bit register clears the upper half of the 64-bit register
ZeroExtend32(a) == <<a[1], a[2], 0, 0>>

\* An imm32 operand of a 64-bit instruction is sign-extended
SignExtend32(a) ==
    IF a[2] >= 32768 THEN <<a[1], a[2], 65535, 65535>> ELSE <<a[1], a[2], 0, 0>>

----------------------------------------------------------------------------
(* The x86-64 emitter: generate_code (x86_64.rs 217-466) *)

\* One assembled instruction; the meaning of a and b depends on op
Ins(op, a, b) == [op |-> op, a |-> a, b |-> b]

\* The address of guest_print baked into the code (x86_64.rs 269)
GuestPrintAddress == <<4660, 22136, 32512, 0>>

\* The address the assembler gives the label of constant c (x86_64.rs 207-211)
ConstantAddress(c) == <<256 * c, 16384, 32512, 0>>

\* The registers the System V ABI lets a callee overwrite
CallerSaved == {Rax, Rcx, Rdx, Rsi, Rdi, R8, R9, R10, R11}

\* emit_mov_imm (x86_64.rs 150-184); imm is the usize payload
emit_mov_imm(dest, imm, type) ==
    CASE type \in {"U8", "I8"} ->
            <<Ins("xor32", dest, dest), Ins("mov32_imm", dest, <<imm[1] % 256, 0, 0, 0>>)>>
      [] type \in {"U16", "I16"} ->
            <<Ins("xor32", dest, dest), Ins("mov64_imm32", dest, <<imm[1], 0, 0, 0>>)>>
      [] type \in {"U32", "I32"} ->
            <<Ins("xor32", dest, dest), Ins("mov64_imm32", dest, <<imm[1], imm[2], 0, 0>>)>>
      [] type \in {"U64", "I64"} ->
            <<Ins("mov64_imm64", dest, imm)>>

\* The prologue (x86_64.rs 236-243)
Prologue ==
    <<Ins("push", Rbp, 0), Ins("mov", Rbp, Rsp), Ins("sub_imm", Rsp, 8),
      Ins("push", Rbx, 0), Ins("push", Rdi, 0), Ins("push", Rsi, 0)>>

\* IR::PrintConstant (x86_64.rs 253-281); len is the constant's length.  "mov si, BYTE
\* len as _" has a 16-bit destination: x86-64 has no mov of an 8-bit immediate into a
\* 16-bit register, so the operand is assembled in the 16-bit immediate of mov r16, imm16
\* and the cast takes len to 16 bits
LowerPrintConstant(c, len) ==
    <<Ins("push", Rax, 0), Ins("push", Rcx, 0), Ins("push", Rdx, 0), Ins("push", Rsi, 0),
      Ins("push", Rdi, 0), Ins("push", R8, 0), Ins("push", R9, 0), Ins("push", R10, 0),
      Ins("push", R11, 0),
      Ins("lea_const", Rdi, c), Ins("xor32", Rsi, Rsi), Ins("mov16_imm", Rsi, len % 65536),
      Ins("mov64_imm64", Rax, GuestPrintAddress), Ins("call", Rax, 0),
      Ins("pop", R11, 0), Ins("pop", R10, 0), Ins("pop", R9, 0), Ins("pop", R8, 0),
      Ins("pop", Rdi, 0), Ins("pop", Rsi, 0), Ins("pop", Rdx, 0), Ins("pop", Rcx, 0),
      Ins("pop", Rax, 0)>>

\* IR::JumpIfEqual with the branch targets exchanged
LowerJumpIfEqualSwapped(mr1, true_bb_idx, false_bb_idx) ==
    <<Ins("cmp_imm", mr1, Word(0)), Ins("je", false_bb_idx, 0), Ins("jmp", true_bb_idx, 0)>>

\* IR::JumpIfEqual on a register (x86_64.rs 304-311)
LowerJumpIfEqual(mr1, true_bb_idx, false_bb_idx) ==
    <<Ins("cmp_imm", mr1, Word(0)), Ins("je", true_bb_idx, 0), Ins("jmp", false_bb_idx, 0)>>

\* IR::Return (x86_64.rs 452-462)
LowerReturn ==
    <<Ins("pop", Rsi, 0), Ins("pop", Rdi, 0), Ins("pop", Rbx, 0), Ins("add_imm", Rsp, 8),
      Ins("mov", Rsp, Rbp), Ins("pop", Rbp, 0), Ins("ret", 0, 0)>>

\* The registers an instruction looks up in register_map (register_map[&r] panics
\* when r has no entry)
LookedUp(inst) ==
    (IF inst.op \in {"Alloca", "Add", "Subtract"} THEN {inst.dest_register} ELSE {})
    \cup (IF inst.op = "Load" /\ inst.dest_register.tag = "Register"
             THEN {inst.dest_register.idx} ELSE {})
    \cup UsedRegistersOf(inst)

\* The match arm of generate_code for one instruction (x86_64.rs 252-464):
\* the instructions it assembles, or the panic it ends in.  v1 + v2 and v1 - v2 are
\* usize arithmetic: with overflow checks (a debug build) a difference below zero
\* panics, without them it wraps; the payloads of the model are too small for a sum
\* to pass 2^64
Lower(inst, register_map, constants, overflow_checks) ==
    LET M(v) == register_map[v.idx]
        Ok(o) == [failure |-> "", ops |-> o]
        Panic(msg) == [failure |-> msg, ops |-> <<>>]
        IsReg(v) == v.tag = "Register"
    IN IF inst.op = "PrintConstant"
          THEN IF inst.constant_ref \in 0..(Len(constants) - 1)
                  THEN Ok(LowerPrintConstant(inst.constant_ref,
                                             Len(constants[inst.constant_ref + 1])))
                  ELSE Panic("constant_map: key not found")
       ELSE IF inst.op = "Jump" THEN Ok(<<Ins("jmp", inst.bb_idx, 0)>>)
       ELSE IF inst.op = "Return" THEN Ok(LowerReturn)
       ELSE IF inst.op \in {"Multiply", "Divide", "JumpIfNotEqual"}
          THEN Panic("not implemented: not yet")
       ELSE IF inst.op = "JumpIfEqual" /\ ~IsReg(inst.src_register)
          THEN Panic("not implemented: Conditional jumps on immediate values")
       ELSE IF ~(LookedUp(inst) \subseteq DOMAIN register_map)
          THEN Panic("register_map: key not found")
       ELSE IF inst.op = "JumpIfEqual"
          THEN Ok(LowerJumpIfEqual(M(inst.src_register), inst.true_bb_idx, inst.false_bb_idx))
       ELSE IF inst.op = "Add"
          THEN LET mdest == register_map[inst.dest_register]
               IN IF IsReg(inst.src1) /\ IsReg(inst.src2)
                     THEN Ok(<<Ins("mov", mdest, M(inst.src1)), Ins("add", mdest, M(inst.src2))>>)
                  ELSE IF IsReg(inst.src1)
                     THEN Ok(emit_mov_imm(mdest, Word(inst.src2.value), inst.src2.type)
                             \o <<Ins("add", mdest, M(inst.src1))>>)
                  ELSE IF IsReg(inst.src2)
                     THEN Ok(emit_mov_imm(mdest, Word(inst.src1.value), inst.src1.type)
                             \o <<Ins("add", mdest, M(inst.src2))>>)
                  ELSE Ok(emit_mov_imm(mdest,
                                       Add64(Word(inst.src1.value), Word(inst.src2.value)),
                                       inst.src1.type))
       ELSE IF inst.op = "Subtract"
          THEN LET mdest == register_map[inst.dest_register]
               IN IF IsReg(inst.src1) /\ IsReg(inst.src2)
                     THEN Ok(<<Ins("mov", mdest, M(inst.src1)), Ins("sub", mdest, M(inst.src2))>>)
                  ELSE IF IsReg(inst.src1)
                     THEN Panic("not yet implemented: Implement this by updating the core abstraction")
                  ELSE IF IsReg(inst.src2)
                     THEN Ok(emit_mov_imm(mdest, Word(inst.src1.value), inst.src1.type)
                             \o <<Ins("sub", mdest, M(inst.src2))>>)
                  ELSE IF overflow_checks /\ inst.src1.value < inst.src2.value
                     THEN Panic("attempt to subtract with overflow")
                  ELSE Ok(emit_mov_imm(mdest,
                                       Sub64(Word(inst.src1.value), Word(inst.src2.value)),
                                       inst.src1.type))
       ELSE IF inst.op = "Alloca"
          THEN IF inst.type \in {"I32", "U32"}
                  THEN Ok(<<Ins("lea_rbp", register_map[inst.dest_register], 4)>>)
                  ELSE Panic("not implemented: should probably rewrite allocas and not implement this")
       ELSE IF inst.op = "Load"
          THEN IF IsReg(inst.src_register)
                  THEN Ok(<<Ins("load32", M(inst.dest_register), M(inst.src_register))>>)
                  ELSE Panic("not yet implemented: deref raw pointers")
       ELSE IF inst.op = "Store"
          THEN IF IsReg(inst.dest_register) /\ IsReg(inst.src_register)
                  THEN Ok(<<Ins("store64", M(inst.dest_register), M(inst.src_register))>>)
               ELSE IF IsReg(inst.dest_register)
                  THEN IF inst.src_register.type = "U32"
                          THEN Ok(<<Ins("mov32_imm", Rax, ZeroExtend32(Word(inst.src_register.value))),
                                    Ins("store32", M(inst.dest_register), Rax)>>)
                          ELSE Panic("not implemented: storing anything but a u32")
               ELSE Panic("not implemented: Store for constant destinations")
       ELSE Panic("not implemented: not yet")

\* The loop over a block's instructions (x86_64.rs 251-465)
RECURSIVE LowerCode(_, _, _, _, _)
LowerCode(code, register_map, constants, overflow_checks, acc) ==
    IF code = <<>> \/ acc.failure # "" THEN acc
    ELSE LET r == Lower(Head(code), register_map, constants, overflow_checks)
         IN LowerCode(Tail(code), register_map, constants, overflow_checks,
                      [failure |-> r.failure, ops |-> acc.ops \o r.ops])

\* The loop over the blocks (x86_64.rs 247-466): block i gets its label where its
\* code starts
RECURSIVE LowerBlocks(_, _, _, _, _, _)
LowerBlocks(bs, i, register_map, constants, overflow_checks, acc) ==
    IF i >= Len(bs) \/ acc.failure # "" THEN acc
    ELSE LET r == LowerCode(bs[i + 1].code, register_map, constants, overflow_checks,
                            [failure |-> "", ops |-> acc.ops])
         IN LowerBlocks(bs, i + 1, register_map, constants, overflow_checks,
                        [failure |-> r.failure, ops |-> r.ops,
                         bb_map |-> Put(acc.bb_map, i, Len(acc.ops) + 1)])

\* The labels jumps refer to
JumpTargets(ops) ==
    {ops[i].a : i \in {j \in 1..Len(ops) : ops[j].op \in {"je", "jmp"}}}

\* generate_code after compute_register_map (x86_64.rs 236-466, 604-608): a label that
\* is referred to and never placed makes the assembler fail
generate_code(bs, constants, register_map, overflow_checks) ==
    LET r == LowerBlocks(bs, 0, register_map, constants, overflow_checks,
                         [failure |-> "", ops |-> Prologue, bb_map |-> EmptyMap])
    IN IF r.failure = "" /\ ~(JumpTargets(r.ops) \subseteq DOMAIN r.bb_map)
          THEN [r EXCEPT !.failure = "unknown label"]
          ELSE r

----------------------------------------------------------------------------
(* The machine that runs the emitted function *)

\* Does the 64-bit word v address n 16-bit words of the modelled stack?
Addressable(mem, v, n) ==
    /\ v[2] = 0 /\ v[3] = 0 /\ v[4] = 0
    /\ v[1] % 2 = 0
    /\ \A k \in 0..(n - 1) : (v[1] \div 2) + k \in DOMAIN mem

ReadMem(mem, v, n) == [k \in 1..n |-> mem[(v[1] \div 2) + k - 1]]

WriteMem(mem, v, limbs) ==
    [a \in DOMAIN mem |->
        IF a - (v[1] \div 2) \in 0..(Len(limbs) - 1) THEN limbs[a - (v[1] \div 2) + 1] ELSE mem[a]]

Fault(c) == [c EXCEPT !.status = "fault"]

\* guest_print (x86_64.rs 143-148) as the emitted code calls it: the call pushes the
\* return address, the host writes len bytes from buffer and returns, leaving junk in
\* the registers a callee may overwrite
CallGuestPrint(c, junk) ==
    LET sp == Sub64(c.regs[Rsp], Word(8))
    IN IF ~Addressable(c.mem, sp, 4) THEN Fault(c)
       ELSE [c EXCEPT !.mem = WriteMem(c.mem, sp, Word(c.ip + 1)),
                      !.out = Append(c.out, [buffer |-> c.regs[Rdi], len |-> c.regs[Rsi]]),
                      !.regs = [r \in DOMAIN c.regs |->
                                   IF r \in CallerSaved THEN junk ELSE c.regs[r]],
                      !.ip = c.ip + 1]

\* One instruction of the emitted function
Exec(c, ins, bb_map, return_address, junk) ==
    LET next == [c EXCEPT !.ip = c.ip + 1]
        Set(r, v) == [next EXCEPT !.regs[r] = v]
    IN CASE ins.op = "push" ->
                LET sp == Sub64(c.regs[Rsp], Word(8))
                IN IF ~Addressable(c.mem, sp, 4) THEN Fault(c)
                   ELSE [next EXCEPT !.mem = WriteMem(c.mem, sp, c.regs[ins.a]),
                                     !.regs[Rsp] = sp]
         [] ins.op = "pop" ->
                IF ~Addressable(c.mem, c.regs[Rsp], 4) THEN Fault(c)
                ELSE [next EXCEPT !.regs = [c.regs EXCEPT
                                               ![Rsp] = Add64(c.regs[Rsp], Word(8)),
                                               ![ins.a] = ReadMem(c.mem, c.regs[Rsp], 4)]]
         [] ins.op = "mov" -> Set(ins.a, c.regs[ins.b])
         [] ins.op = "sub_imm" -> Set(ins.a, Sub64(c.regs[ins.a], Word(ins.b)))
         [] ins.op = "add_imm" -> Set(ins.a, Add64(c.regs[ins.a], Word(ins.b)))
         [] ins.op = "lea_rbp" -> Set(ins.a, Sub64(c.regs[Rbp], Word(ins.b)))
         [] ins.op = "lea_const" -> Set(ins.a, ConstantAddress(ins.b))
         [] ins.op = "xor32" -> IF ins.a = ins.b THEN Set(ins.a, Word(0)) ELSE Fault(c)
         [] ins.op = "mov16_imm" ->
                Set(ins.a, <<ins.b, c.regs[ins.a][2], c.regs[ins.a][3], c.regs[ins.a][4]>>)
         [] ins.op = "mov32_imm" -> Set(ins.a, ZeroExtend32(ins.b))
         [] ins.op = "mov64_imm32" -> Set(ins.a, SignExtend32(ins.b))
         [] ins.op = "mov64_imm64" -> Set(ins.a, ins.b)
         [] ins.op = "call" ->
                IF c.regs[ins.a] = GuestPrintAddress THEN CallGuestPrint(c, junk) ELSE Fault(c)
         [] ins.op = "load32" ->
                IF ~Addressable(c.mem, c.regs[ins.b], 2) THEN Fault(c)
                ELSE Set(ins.a, ZeroExtend32(ReadMem(c.mem, c.regs[ins.b], 2) \o <<0, 0>>))
         [] ins.op = "store64" ->
                IF ~Addressable(c.mem, c.regs[ins.a], 4) THEN Fault(c)
                ELSE [next EXCEPT !.mem = WriteMem(c.mem, c.regs[ins.a], c.regs[ins.b])]
         [] ins.op = "store32" ->
                IF ~Addressable(c.mem, c.regs[ins.a], 2) THEN Fault(c)
                ELSE [next EXCEPT !.mem = WriteMem(c.mem, c.regs[ins.a],
                                                   SubSeq(c.regs[ins.b], 1, 2))]
         [] ins.op = "add" -> Set(ins.a, Add64(c.regs[ins.a], c.regs[ins.b]))
         [] ins.op = "sub" -> Set(ins.a, Sub64(c.regs[ins.a], c.regs[ins.b]))
         [] ins.op = "cmp_imm" -> [next EXCEPT !.zf = (c.regs[ins.a] = SignExtend32(ins.b))]
         [] ins.op = "je" -> IF c.zf THEN [c EXCEPT !.ip = bb_map[ins.a]] ELSE next
         [] ins.op = "jmp" -> [c EXCEPT !.ip = bb_map[ins.a]]
         [] ins.op = "ret" ->
                IF ~Addressable(c.mem, c.regs[Rsp], 4) THEN Fault(c)
                ELSE IF ReadMem(c.mem, c.regs[Rsp], 4) # return_address THEN Fault(c)
                ELSE [c EXCEPT !.regs[Rsp] = Add64(c.regs[Rsp], Word(8)),
                               !.status = "returned"]

\* What the caller leaves in register r when it calls the function
CallerWord(r) == <<4096 + r, 48879, 32765, 0>>

\* Where the caller's call returns to
ReturnAddress == <<4660, 22136, 21845, 0>>

\* The stack pointer on entry: the return address and one more word lie above it
EntryRsp == Word(2 * (StackWords - 8))

\* The machine when the caller has executed its call (examples/conditional_print.rs 65-67)
EntryCpu ==
    [regs |-> [r \in 0..15 |-> IF r = Rsp THEN EntryRsp ELSE CallerWord(r)],
     mem |-> WriteMem([a \in 0..(StackWords - 1) |-> 0], EntryRsp, ReturnAddress),
     ip |-> 1, zf |-> FALSE, out |-> <<>>, status |-> "running"]

\* What guest_print may leave in a register it is free to overwrite
JunkWords == {Word(0), <<65535, 65535, 65535, 65535>>}

\* The constants of the Context generate_code is given (examples/conditional_print.rs 7-8)
constants == <<"Hello, world\n", "Goodbye, world\n">>

\* The caller calls the function (examples/conditional_print.rs 57-59, 65-67)
call_entry ==
    /\ pc = "emitted"
    /\ cpu' = EntryCpu
    /\ pc' = "running"
    /\ UNCHANGED <<failure, builderVars, analysisVars, emitted>>

\* The processor executes the instruction at ip; running past the last instruction
\* leaves the emitted function
step ==
    /\ pc = "running"
    /\ \E junk \in JunkWords :
          cpu' = IF cpu.ip \in 1..Len(emitted.ops)
                    THEN Exec(cpu, emitted.ops[cpu.ip], emitted.bb_map, ReturnAddress, junk)
                    ELSE Fault(cpu)
    /\ pc' = IF cpu'.status = "running" THEN "running" ELSE cpu'.status
    /\ UNCHANGED <<failure, builderVars, analysisVars, emitted>>

NextExec ==
    \/ call_entry
    \/ step

----------------------------------------------------------------------------
(* Finalized programs for the analysis *)

RECURSIVE SortedSeq(_)
SortedSeq(S) == IF S = {} THEN <<>> ELSE <<MinOf(S)>> \o SortedSeq(S \ {MinOf(S)})

\* The blocks a client gets by creating n blocks and calling jump(t) on block b for
\* every t in ex[b], blocks and targets in index order, then finalize
JumpProgram(n, ex) ==
    [i \in 1..n |->
        [parents |-> SortedSeq({p \in 0..(n - 1) : (i - 1) \in ex[p]}),
         exits |-> SortedSeq(ex[i - 1]),
         code |-> [k \in 1..Cardinality(ex[i - 1]) |-> IRJump(SortedSeq(ex[i - 1])[k])]]]

\* head 0 branches to 1 and 2, both jump to the join 3, the join jumps back to 0
DiamondLoop ==
    JumpProgram(4, [b \in 0..3 |-> CASE b = 0 -> {1, 2} [] b = 3 -> {0} [] OTHER -> {3}])

InitGraph ==
    /\ pc = "finalized"
    /\ \/ blocks = DiamondLoop
       \/ \E n \in 1..MaxNodes : \E ex \in [0..(n - 1) -> SUBSET (0..(n - 1))] :
            blocks = JumpProgram(n, ex)
    /\ chan = <<>>
    /\ LAST_REGISTER = 0
    /\ returned = <<>>
    /\ raw_defs = FALSE
    /\ nops = 0
    /\ failure = ""
    /\ AnalysisNotStarted

SpecGraph == InitGraph /\ [][NextAnalysis]_vars

\* The Store a client pushes to read the registers of U (at most two)
ReadersOf(U) ==
    IF U = {} THEN <<>>
    ELSE IF Cardinality(U) = 1 THEN <<IRStore(Register(MinOf(U)), u32(0))>>
    ELSE <<IRStore(Register(MinOf(U)), Register(MinOf(U \ {MinOf(U)})))>>

\* The blocks a client gets by creating n blocks, calling add once per register r on
\* block defb[r] (so register r is the r-th the counter hands out), pushing in every
\* block of useb[r] a Store that reads r, calling jump as in JumpProgram, then finalize
RegisterProgram(n, ex, defb, useb) ==
    LET jumps == JumpProgram(n, ex)
        defs(b) == SortedSeq({r \in DOMAIN defb : defb[r] = b})
        reads(b) == {r \in DOMAIN useb : b \in useb[r]}
    IN [i \in 1..n |->
          [jumps[i] EXCEPT !.code =
              [k \in 1..Len(defs(i - 1)) |-> IRAdd(defs(i - 1)[k], u32(2), u32(2))]
              \o ReadersOf(reads(i - 1)) \o @]]

ExitChoices == {S \in SUBSET (0..(MaxNodes - 1)) : Cardinality(S) <= MaxExits}

UseChoices == {S \in SUBSET (0..(MaxNodes - 1)) : Cardinality(S) <= MaxUses}

\* Block 0 defines register 1 and jumps to block 1; block 1 defines n more registers,
\* each read by the next definition, then stores the last through register 1
PressureProgram(n) ==
    <<[parents |-> <<>>, exits |-> <<1>>,
       code |-> <<IRAdd(1, u32(2), u32(2)), IRJump(1)>>],
      [parents |-> <<0>>, exits |-> <<>>,
       code |-> [k \in 1..n |-> IRAdd(k + 1, IF k = 1 THEN u32(2) ELSE Register(k), u32(1))]
                \o <<IRStore(Register(1), Register(n + 1))>>]>>

InitAlloc ==
    /\ pc = "finalized"
    /\ \/ \E ex \in [0..(MaxNodes - 1) -> ExitChoices], k \in 0..MaxRegs :
            \E defb \in [1..k -> 0..(MaxNodes - 1)],
               useb \in [1..k -> UseChoices] :
                blocks = RegisterProgram(MaxNodes, ex, defb, useb)
       \/ \E n \in 1..MaxPressure : blocks = PressureProgram(n)
    /\ chan = <<>>
    /\ LAST_REGISTER = Len(AllDefinitions(blocks))
    /\ returned = [i \in 1..Len(AllDefinitions(blocks)) |-> i]
    /\ raw_defs = FALSE
    /\ nops = 0
    /\ failure = ""
    /\ AnalysisNotStarted

SpecAlloc == InitAlloc /\ [][NextAnalysis]_vars

\* JumpProgram with one register per block: block b defines register b + 1 with add
\* and reads, with a Store, the register block (b + 1) mod n defines
RingProgram(n, ex) ==
    RegisterProgram(n, ex, [r \in 1..n |-> r - 1], [r \in 1..n |-> {(r + n - 2) % n}])

InitWalk ==
    /\ pc = "finalized"
    /\ \/ \E n \in 1..MaxNodes : \E ex \in [0..(n - 1) -> ExitChoices \cap SUBSET (0..(n - 1))] :
            blocks = RingProgram(n, ex)
       \/ \E n \in 1..MaxPressure : blocks = PressureProgram(n)
    /\ chan = <<>>
    /\ LAST_REGISTER = Len(AllDefinitions(blocks))
    /\ returned = [i \in 1..Len(AllDefinitions(blocks)) |-> i]
    /\ raw_defs = FALSE
    /\ nops = 0
    /\ failure = ""
    /\ AnalysisNotStarted

SpecWalk == InitWalk /\ [][NextAnalysis]_vars

\* The exits of a block that ends in at most one jump, among n blocks
SingleExit(n) == {S \in SUBSET (0..(n - 1)) : Cardinality(S) <= 1}

\* JumpProgram in which every block defines one register with add and reads it with a
\* Store, and whose client also called add_parent(p) on block b while building it, as
\* examples/conditional_print.rs 36-38 does: the declared parent precedes the parents
\* finalize adds for the jumps
DeclaredProgram(n, ex, b, p) ==
    [RegisterProgram(n, ex, [r \in 1..n |-> r - 1], [r \in 1..n |-> {r - 1}])
        EXCEPT ![b + 1].parents = <<p>> \o @]

InitDeclared ==
    /\ pc = "finalized"
    /\ \E n \in 1..MaxNodes : \E ex \in [0..(n - 1) -> SingleExit(n)] :
          \E b \in 0..(n - 1), p \in 0..(n - 1) : blocks = DeclaredProgram(n, ex, b, p)
    /\ chan = <<>>
    /\ LAST_REGISTER = Len(AllDefinitions(blocks))
    /\ returned = [i \in 1..Len(AllDefinitions(blocks)) |-> i]
    /\ raw_defs = FALSE
    /\ nops = 0
    /\ failure = ""
    /\ AnalysisNotStarted

SpecDeclared == InitDeclared /\ [][NextAnalysis]_vars

\* The notices the jumps of blocks b, b + 1, ... posted, in the order of the calls
RECURSIVE JumpNotices(_, _)
JumpNotices(bs, b) ==
    IF b >= Len(bs) THEN <<>>
    ELSE [k \in 1..Len(bs[b + 1].exits) |-> <<b, bs[b + 1].exits[k]>>] \o JumpNotices(bs, b + 1)

\* A Context whose client has created all its blocks and then made its builder calls:
\* MaxNodes blocks, at most one register, every jump's notice still on the channel
InitFinalize ==
    /\ pc = "build"
    /\ \E ex \in [0..(MaxNodes - 1) -> ExitChoices], k \in 0..1 :
          \E defb \in [1..k -> 0..(MaxNodes - 1)], useb \in [1..k -> UseChoices] :
             LET bs == RegisterProgram(MaxNodes, ex, defb, useb)
             IN /\ blocks = [i \in 1..Len(bs) |-> [bs[i] EXCEPT !.parents = <<>>]]
                /\ chan = JumpNotices(bs, 0)
    /\ LAST_REGISTER = Len(AllDefinitions(blocks))
    /\ returned = [i \in 1..Len(AllDefinitions(blocks)) |-> i]
    /\ raw_defs = FALSE
    /\ nops = 0
    /\ failure = ""
    /\ AnalysisNotStarted

SpecFinalize == InitFinalize /\ [][finalize]_vars

\* The program of examples/conditional_print.rs as its builder calls leave it: the
\* entry block (0), loop_inner (1), loop_outer (2) and loop_exit (3)
conditional_print_built ==
    <<[parents |-> <<>>, exits |-> <<1>>,
       code |-> <<IRAlloca(1, "U32", 4), IRStore(Register(1), u32(0)), IRJump(1)>>],
      [parents |-> <<>>, exits |-> <<>>,
       code |-> <<IRPrintConstant(0), IRLoad(Register(2), Register(1)),
                  IRAdd(3, Register(2), u32(1)), IRStore(Register(1), Register(3)),
                  IRSubtract(4, u32(4), Register(3))>>],
      [parents |-> <<1>>, exits |-> <<3, 1>>,
       code |-> <<IRJumpIfEqual(Register(4), 3, 1)>>],
      [parents |-> <<2>>, exits |-> <<>>,
       code |-> <<IRPrintConstant(1), IRReturn>>]>>

\* The edge notices its jump and jump_if_equal posted
conditional_print_messages == <<<<0, 1>>, <<2, 3>>, <<2, 1>>>>

\* The program after ctx.finalize() (examples/conditional_print.rs 51)
conditional_print == process_messages(conditional_print_built, conditional_print_messages)

\* The state when generate_code has returned the function assembled for the example
\* (examples/conditional_print.rs 51-55): finalize, compute_register_map and the
\* emitter have run
InitExec ==
    /\ blocks = conditional_print
    /\ chan = <<>>
    /\ LAST_REGISTER = Len(AllDefinitions(blocks))
    /\ returned = [i \in 1..Len(AllDefinitions(blocks)) |-> i]
    /\ raw_defs = FALSE
    /\ nops = 0
    /\ graph_data = compute_graph(blocks)
    /\ query = GraphQueryNew(graph_data, blocks)
    /\ LET st == WalkLoop(blocks, query, FirstCall)
       IN /\ walk_stack = st.walk_stack
          /\ seen = st.seen
          /\ reg_map = st.reg_map
          /\ visit = st.visit
    /\ \E overflow_checks \in BOOLEAN :
          emitted = generate_code(blocks, constants, reg_map, overflow_checks)
    /\ failure = emitted.failure
    /\ pc = IF failure = "" THEN "emitted" ELSE "panic"
    /\ cpu = EmptyCpu

SpecExec == InitExec /\ [][NextExec]_vars

\* The emitted function runs on the caller's thread, without suspension
SpecExecFair == SpecExec /\ WF_vars(NextExec)

----------------------------------------------------------------------------
(* generate_code on one-block programs, each exercising one instruction *)

Bytes(n) == [i \in 1..n |-> 0]

\* The constants of the Context (Context::add_constant, ir.rs 109-112): the two of the
\* example, then constants of 255, 256 and MaxConstantLen bytes
EmitConstants == constants \o <<Bytes(255), Bytes(256), Bytes(MaxConstantLen)>>

ImmediateTypes == {"U8", "U16", "U32", "U64"}

\* Payloads of an immediate of type t: the smallest, and the largest of the type that
\* the model's integers hold
Payloads(t) ==
    CASE t = "U8" -> {0, 1, 255}
      [] t = "U16" -> {0, 1, 65535}
      [] OTHER -> {0, 1, 2147483647}

\* Add and Subtract of two immediates of one type
FoldedInstructions ==
    UNION {{IRAdd(3, Immediate(t, v1), Immediate(t, v2)),
            IRSubtract(3, Immediate(t, v1), Immediate(t, v2))} :
           t \in ImmediateTypes, v1 \in {0, 1, 255, 65535, 2147483647},
           v2 \in {0, 1, 255, 65535, 2147483647}}

\* The instructions and operand combinations generate_code has no lowering for
UnsupportedInstructions ==
    {IRSubtract(3, Register(1), u32(1)),
     IRJumpIfEqual(u32(0), 0, 0),
     IRAlloca(3, "U64", 8),
     IRAlloca(3, "U8", 1),
     IRStore(Register(2), Immediate("U64", 1)),
     IRMultiply(3, Register(1), u32(2)),
     IRDivide(3, Register(1), u32(2))}

\* Instructions generate_code lowers
SupportedInstructions ==
    {IRSubtract(3, u32(5), Register(1)),
     IRSubtract(3, Register(1), Register(1)),
     IRAdd(3, Register(1), u32(1)),
     IRStore(Register(2), u32(7)),
     IRLoad(Register(3), Register(2))}
    \cup {IRPrintConstant(c) : c \in 0..(Len(EmitConstants) - 1)}

\* The block a client builds around the instruction under test: register 1 holds a
\* sum, register 2 a stack slot; the instruction; stores that read every register
\* defined; return
EmitProgram(inst) ==
    <<[parents |-> <<>>, exits |-> <<>>,
       code |-> <<IRAdd(1, u32(2), u32(2)), IRAlloca(2, "U32", 4), inst,
                  IRStore(Register(2), Register(1))>>
                \o (IF DefinesRegister(inst) THEN <<IRStore(Register(2), Register(3))>> ELSE <<>>)
                \o <<IRReturn>>]>>

\* The instruction under test of an EmitProgram
UnderTest == blocks[1].code[3]

InitEmit ==
    /\ pc = "finalized"
    /\ \E inst \in FoldedInstructions \cup UnsupportedInstructions \cup SupportedInstructions :
          /\ (inst \in FoldedInstructions =>
                 inst.src1.value \in Payloads(inst.src1.type)
                 /\ inst.src2.value \in Payloads(inst.src2.type))
          /\ blocks = EmitProgram(inst)
    /\ chan = <<>>
    /\ LAST_REGISTER = Len(AllDefinitions(blocks))
    /\ returned = [i \in 1..Len(AllDefinitions(blocks)) |-> i]
    /\ raw_defs = FALSE
    /\ nops = 0
    /\ failure = ""
    /\ AnalysisNotStarted

\* generate_code from the prologue to ops.finalize() (x86_64.rs 236-466, 604-618), in a
\* build with or without overflow checks: it returns the assembled function or panics
generate_code_blocks ==
    /\ pc = "mapped"
    /\ \E overflow_checks \in BOOLEAN :
          emitted' = generate_code(blocks, EmitConstants, reg_map, overflow_checks)
    /\ failure' = emitted'.failure
    /\ pc' = IF emitted'.failure = "" THEN "emitted" ELSE "panic"
    /\ UNCHANGED <<builderVars, analysisVars, cpu>>

NextEmit ==
    \/ NextAnalysis
    \/ generate_code_blocks
    \/ NextExec

SpecEmit == InitEmit /\ [][NextEmit]_vars

\* The values the client stores through its pointers
StoredValues == {0, 1, 65535, 65536}

\* A function with two stack slots: block 0 allocates p = r1 and q = r2, stores v1
\* through p, then v2 through q, loads r3 through p and branches on it to block 1,
\* which returns
TwoAllocas(v1, v2) ==
    <<[parents |-> <<>>, exits |-> <<1, 1>>,
       code |-> <<IRAlloca(1, "U32", 4), IRAlloca(2, "U32", 4),
                  IRStore(Register(1), u32(v1)), IRStore(Register(2), u32(v2)),
                  IRLoad(Register(3), Register(1)), IRJumpIfEqual(Register(3), 1, 1)>>],
      [parents |-> <<0, 0>>, exits |-> <<>>, code |-> <<IRReturn>>]>>

InitStack ==
    /\ pc = "finalized"
    /\ \E v1 \in StoredValues, v2 \in StoredValues : blocks = TwoAllocas(v1, v2)
    /\ chan = <<>>
    /\ LAST_REGISTER = Len(AllDefinitions(blocks))
    /\ returned = [i \in 1..Len(AllDefinitions(blocks)) |-> i]
    /\ raw_defs = FALSE
    /\ nops = 0
    /\ failure = ""
    /\ AnalysisNotStarted

SpecStack == InitStack /\ [][NextEmit]_vars

----------------------------------------------------------------------------
(* Claims about the builder, under Spec *)

Finalized == pc = "finalized"

\* C4: after Context::finalize, for every block b and every index s in b.exits,
\* b appears in s.parents.
C4_ExitsHaveParents ==
    Finalized =>
        \A b \in BlockIndices(blocks) :
            \A s \in Range(blocks[b + 1].exits) : b \in Range(blocks[s + 1].parents)

\* A finalized context in which a jump between two different blocks was mirrored
C4_Witness ==
    /\ Finalized
    /\ \E b \in BlockIndices(blocks) :
          \E s \in Range(blocks[b + 1].exits) : s # b /\ b \in Range(blocks[s + 1].parents)

\* C5: after Context::finalize, for every block b and every index p in b.parents,
\* b appears in p.exits, also when the predecessor was declared with add_parent.
C5_ParentsHaveExits ==
    Finalized =>
        \A b \in BlockIndices(blocks) :
            \A p \in Range(blocks[b + 1].parents) : b \in Range(blocks[p + 1].exits)

\* C6: every register-producing helper returns an index strictly greater than every
\* index returned before; so after helper calls alone no two instructions share a
\* destination register and the single-definition assertion of GraphQuery::new holds.
C6_FreshRegisters ==
    /\ \A i, j \in 1..Len(returned) : i < j => returned[i] < returned[j]
    /\ ~raw_defs => DefineMapAssertHolds(blocks)

\* Helpers were called on two different blocks, and nothing else defined a register
C6_Witness ==
    /\ ~raw_defs
    /\ Len(returned) >= 2
    /\ \E a, b \in BlockIndices(blocks) :
          /\ a # b
          /\ iter_defined_registers(blocks[a + 1].code) # <<>>
          /\ iter_defined_registers(blocks[b + 1].code) # <<>>

\* C15: the register counter is scoped to the Context: a fresh Context hands out the
\* indices 1, 2, ... whatever was built on another Context before, so the registers
\* its helpers defined are exactly 1..n.
C15_CounterScopedToContext ==
    ~raw_defs => Range(AllDefinitions(blocks)) = 1..Len(AllDefinitions(blocks))

IsTerminator(inst) == inst.op \in {"Jump", "JumpIfEqual", "JumpIfNotEqual", "Return"}

\* C16: after finalize, every block holds at most one control-flow terminator and no
\* instruction follows it.
C16_OneTerminatorLast ==
    Finalized =>
        \A b \in BlockIndices(blocks) :
            \A i \in 1..Len(blocks[b + 1].code) :
                IsTerminator(blocks[b + 1].code[i]) => i = Len(blocks[b + 1].code)

\* The sources of the pending notices whose target is block b, in the order sent
PendingFor(msgs, b) ==
    LET forb == SelectSeq(msgs, LAMBDA m : m[2] = b)
    IN [i \in 1..Len(forb) |-> forb[i][1]]

\* A step of new_basic_block or finalize: the calls that change the state and are
\* not counted as builder calls on a block
DrainStep == nops' = nops /\ blocks # <<>> /\ blocks' # <<>> /\ Len(blocks') >= Len(blocks)

ParentsUnchanged ==
    \A b \in BlockIndices(blocks) : blocks'[b + 1].parents = blocks[b + 1].parents

DrainAppliesPending ==
    /\ chan' = <<>>
    /\ \A b \in BlockIndices(blocks) :
          blocks'[b + 1].parents = blocks[b + 1].parents \o PendingFor(chan, b)

\* C18: a notice posted by jump from A to B is applied exactly once: the jump leaves
\* every parents list alone, the next new_basic_block or finalize appends to each
\* block's parents the sources of the notices pending for it and nothing else and
\* empties the channel, and after finalize no notice is pending.
C18_NoticeAppliedOnce ==
    /\ [][(Len(chan') > Len(chan)) => ParentsUnchanged]_vars
    /\ [][DrainStep => DrainAppliesPending]_vars
    /\ [](Finalized => chan = <<>>)

\* Block 1 got its parent 0 from the one jump 0 -> 1, and a later finalize (the
\* channel is empty) has left the list at that
C18_Witness ==
    /\ Finalized
    /\ Len(blocks) = 2
    /\ blocks[1].exits = <<1>>
    /\ blocks[2].parents = <<0>>
    /\ chan = <<>>

----------------------------------------------------------------------------
(* Claims about the reduced graph and the back-edge map, under SpecGraph *)

\* Reference: n lies on a cycle of g
OnCycle(g, n) == n \in ReachFrom(g, Succ(g, {n}))

RemovedEdges(gd) == Range(gd.graph) \ Range(gd.reduced_graph)

\* C7: for every CFG the builder can produce, the reduced graph of
\* compute_reduced_graph_and_depth_map has no cycle (stated for the blocks the entry
\* block reaches).
C7_ReducedGraphAcyclic ==
    pc = "graph" =>
        \A n \in Reach(graph_data.graph, 0) : ~OnCycle(graph_data.reduced_graph, n)

\* C8: every edge u->v removed from the CFG is a back-edge: the depth recorded for u is
\* strictly greater than the depth recorded for v, and the edge closes a cycle (v
\* reaches u); forward and cross edges are never removed.
C8_RemovedEdgesAreBackEdges ==
    pc = "graph" =>
        \A e \in RemovedEdges(graph_data) :
            /\ e[1] \in DOMAIN graph_data.depth_map
            /\ e[2] \in DOMAIN graph_data.depth_map
            /\ graph_data.depth_map[e[1]] > graph_data.depth_map[e[2]]
            /\ e[1] \in ReachFrom(graph_data.graph, {e[2]})

\* C9: for every CFG edge u->h that closes a loop (u reachable from the entry, h
\* strictly dominating u), the reduced graph has no edge u->h and the back-edge map lists h
\* among the back-edge targets of u.
C9_BackEdgeRecorded ==
    pc = "query" =>
        \A e \in Range(graph_data.graph) :
            (/\ e[1] \in DOMAIN query.dominators
             /\ e[2] \in query.dominators[e[1]])
            => /\ e \notin Range(graph_data.reduced_graph)
               /\ e[2] \in query.back_edges[e[1]]

----------------------------------------------------------------------------
(* Claims about liveness and the register map, under SpecAlloc *)

DefinedRegisters == Range(AllDefinitions(blocks))

DefBlock(r) == DefineMap(blocks)[r]

UseBlocks(r) == {b \in BlockIndices(blocks) : r \in iter_used_registers(blocks[b + 1].code)}

\* Reference: the blocks reachable from s along CFG edges without entering block d
ReachWithout(g, s, d) ==
    IF s = d THEN {} ELSE ReachFrom(SelectSeq(g, LAMBDA e : e[1] # d /\ e[2] # d), {s})

\* Reference: r is live on entry to block s
LiveInRef(r, s) ==
    \E u \in UseBlocks(r) \ {DefBlock(r)} : u \in ReachWithout(graph_data.graph, s, DefBlock(r))

\* Reference: r is live on exit from block q
LiveOutRef(r, q) ==
    IF q = DefBlock(r)
       THEN UseBlocks(r) \ {q} # {}
       ELSE \E s \in Succ(graph_data.graph, {q}) : LiveInRef(r, s)

\* Every register's defining block dominates every other block that reads it
DefsDominateUses ==
    \A r \in DefinedRegisters :
        \A u \in UseBlocks(r) \ {DefBlock(r)} :
            u \in DOMAIN query.dominators /\ DefBlock(r) \in query.dominators[u]

\* C2: in a CFG where each register's defining block dominates the blocks using it,
\* is_live_out(r, q) is true exactly when r is live on exit from q: some path from a
\* successor of q reaches a block reading r without passing through def(r) (for
\* q = def(r): some other block reads r).
C2_LiveOutMatchesReference ==
    (pc = "query" /\ DefsDominateUses) =>
        \A r \in DefinedRegisters : \A q \in BlockIndices(blocks) :
            ~is_live_out_panics(query, r, q) =>
                (is_live_out(query, r, q) <=> LiveOutRef(r, q))

\* r is read in q by an instruction that no definition of r in q precedes
UsedWithoutPriorDefinition(r, q) ==
    LET code == blocks[q + 1].code
    IN \E i \in 1..Len(code) :
          /\ r \in UsedRegistersOf(code[i])
          /\ \A j \in 1..(i - 1) : r \notin Range(iter_defined_registers(<<code[j]>>))

Pred(g, q) == {e[1] : e \in {x \in Range(g) : x[2] = q}}

\* C3: for every register r and block q, the live-in query the allocator makes at
\* block entry is true iff r is used in q without a prior definition in q, or
\* live-out(r, p) is true for some predecessor p of q.  Stated for the programs whose
\* definitions dominate their uses.
C3_LiveInEquivalence ==
    (pc = "query" /\ DefsDominateUses) =>
        \A r \in DefinedRegisters : \A q \in BlockIndices(blocks) :
            (/\ ~is_live_in_panics(query, r)
             /\ \A p \in Pred(graph_data.graph, q) : ~is_live_out_panics(query, r, p))
            => (is_live_in(query, r) <=>
                    \/ UsedWithoutPriorDefinition(r, q)
                    \/ \E p \in Pred(graph_data.graph, q) : is_live_out(query, r, p))

\* Reference: r is live just after instruction i of block blk
LiveAfterRef(r, blk, i) ==
    LET code == blocks[blk + 1].code
    IN /\ \A j \in (i + 1)..Len(code) : r \notin Range(iter_defined_registers(<<code[j]>>))
       /\ \/ \E j \in (i + 1)..Len(code) : r \in UsedRegistersOf(code[j])
          \/ \E s \in Succ(graph_data.graph, {blk}) : LiveInRef(r, s)

\* Reference: b holds a value still to be read at the point where a is defined
LiveAtDefinition(a, b) ==
    \E blk \in BlockIndices(blocks) : \E i \in 1..Len(blocks[blk + 1].code) :
        /\ a \in Range(iter_defined_registers(<<blocks[blk + 1].code[i]>>))
        /\ LiveAfterRef(b, blk, i)

Interfere(a, b) == a # b /\ (LiveAtDefinition(a, b) \/ LiveAtDefinition(b, a))

\* C1: the register map of compute_register_map gives each virtual register one
\* machine register and never gives the same machine register to two virtual
\* registers that are live at the same program point.  Stated for the programs whose
\* definitions dominate their uses.
C1_NoSharedRegisterWhileLive ==
    (pc = "mapped" /\ DefsDominateUses) =>
        /\ \A b \in seen : \A r \in Range(iter_defined_registers(blocks[b + 1].code)) :
              r \in DOMAIN reg_map /\ reg_map[r] \in Range(InitialPool)
        /\ \A a, b \in DOMAIN reg_map :
              (reg_map[a] = reg_map[b] /\ a # b) => ~Interfere(a, b)

----------------------------------------------------------------------------
(* Claims about the emitted code, under SpecExecFair *)

\* The call of guest_print that writes the whole of constant c
Printed(c) == [buffer |-> ConstantAddress(c), len |-> Word(Len(constants[c + 1]))]

ExpectedOutput == <<Printed(0), Printed(0), Printed(0), Printed(0), Printed(1)>>

IsPrefix(s, t) == Len(s) <= Len(t) /\ s = SubSeq(t, 1, Len(s))

\* C10: running the code emitted for the counted-loop program calls guest_print with
\* the loop constant exactly 4 times, then with the exit constant exactly once, and
\* then returns to the caller.
C10_CountedLoopOutput ==
    /\ [](IsPrefix(cpu.out, ExpectedOutput))
    /\ [](pc = "returned" => cpu.out = ExpectedOutput)
    /\ <>(pc = "returned")

C10_Witness == pc = "returned" /\ Len(cpu.out) = 5 /\ cpu.out[4] = Printed(0)

----------------------------------------------------------------------------
(* Claims about the register-assignment walk, under SpecWalk *)

\* A step of the walk enters a block it had not entered, or returns from a call and
\* enters none: the pair (blocks not entered, pending calls) decreases
WalkProgress ==
    /\ seen' \subseteq BlockIndices(blocks)
    /\ \/ seen \subseteq seen' /\ seen' # seen
       \/ seen' = seen /\ Len(walk_stack') < Len(walk_stack)

\* The step allocated the definitions of one block, and that block had not been
\* entered before
AllocatesOneNewBlock ==
    \E b \in BlockIndices(blocks) :
        /\ b \notin seen
        /\ seen' = seen \cup {b}
        /\ DOMAIN reg_map' \ DOMAIN reg_map \subseteq Range(iter_defined_registers(blocks[b + 1].code))
        /\ \A r \in DOMAIN reg_map : r \in DOMAIN reg_map' /\ reg_map'[r] = reg_map[r]

\* The call at the head of the pending calls is for a block entered before
Revisit == pc = "walk" /\ walk_stack # <<>> /\ Head(walk_stack).cur_idx \in seen

\* C19: the register-assignment walk terminates for every finite CFG, cycles and
\* self-edges included (every step of it makes progress in a well-founded order, and
\* it can step until it has ended, by returning or by a panic), and it allocates the
\* definitions of each block at most once: a block reached again is skipped.
C19_WalkTerminatesOncePerBlock ==
    /\ [][pc = "walk" => WalkProgress]_vars
    /\ [](pc = "walk" => walk_stack # <<>>)
    /\ [][reg_map' # reg_map => AllocatesOneNewBlock]_vars
    /\ [][Revisit => (reg_map' = reg_map /\ seen' = seen /\ walk_stack' = Tail(walk_stack))]_vars

\* The walk has returned on a CFG with a self-edge and a two-block cycle, every block
\* entered and every definition mapped
C19_Witness ==
    /\ pc = "mapped"
    /\ seen = BlockIndices(blocks)
    /\ \E a, b \in seen : a # b /\ {<<a, a>>, <<a, b>>, <<b, a>>} \subseteq Range(graph_data.graph)
    /\ DOMAIN reg_map = Range(AllDefinitions(blocks))
    /\ reg_map # EmptyMap

Allocatable == Range(InitialPool)

\* The registers of a path's map and of its pool are the allocatable ones, each once
Partition(current_map, available_registers) ==
    /\ \A i, j \in 1..Len(available_registers) :
          i # j => available_registers[i] # available_registers[j]
    /\ \A r1, r2 \in DOMAIN current_map : r1 # r2 => current_map[r1] # current_map[r2]
    /\ {current_map[r] : r \in DOMAIN current_map} \cap Range(available_registers) = {}
    /\ {current_map[r] : r \in DOMAIN current_map} \cup Range(available_registers) = Allocatable

\* The maps of the call at the head of the pending calls after its release at entry
\* and after its allocation loop
StagesOfNextCall ==
    LET call == Head(walk_stack)
        s1 == ReleaseLoop(DOMAIN call.current_map, LAMBDA k : ~is_live_in(query, k),
                          [current_map |-> call.current_map,
                           available_registers |-> call.available_registers])
        s2 == AllocateLoop(iter_defined_registers(blocks[call.cur_idx + 1].code),
                           [current_map |-> s1.current_map,
                            available_registers |-> s1.available_registers,
                            reg_map |-> reg_map, failure |-> ""])
    IN <<s1, s2>>

\* C20: at every step of the register-assignment walk (on entering a call, after its
\* release at entry, after its allocations and on its return), the machine registers of
\* the path's current map and of its free pool are disjoint, none occurs twice, and
\* together they are the 10 allocatable registers; the register map holds no other.
C20_MapAndPoolPartition ==
    (pc \in {"walk", "mapped"} \/ (pc = "panic" /\ seen # {})) =>
        /\ \A i \in 1..Len(walk_stack) :
              Partition(walk_stack[i].current_map, walk_stack[i].available_registers)
        /\ seen # {} => Partition(visit.current_map, visit.available_registers)
        /\ (pc = "walk" /\ Head(walk_stack).cur_idx \notin seen) =>
              \A i \in 1..2 : Partition(StagesOfNextCall[i].current_map,
                                         StagesOfNextCall[i].available_registers)
        /\ {reg_map[r] : r \in DOMAIN reg_map} \subseteq Allocatable

\* A call has returned with a register held in the path's map and another released
\* to the back of the pool
C20_Witness ==
    /\ pc = "walk"
    /\ seen # {}
    /\ DOMAIN visit.current_map # {}
    /\ Len(visit.available_registers) = 9
    /\ visit.available_registers[9] \in {Rdx, Rbx}

----------------------------------------------------------------------------
(* Claims about generate_code's failures and lowerings, under SpecWalk and SpecEmit *)

\* C11: when the free pool is empty at a definition (11 registers live at once, 10
\* allocatable), generate_code returns an out-of-registers error value to its caller.
C11_OutOfRegistersReturnsError ==
    failure = "Ran out of machine registers" => pc = "error"

\* generate_code has gone past compute_register_map
PastRegisterMap == pc \in {"emitted", "running", "returned", "fault", "panic", "error"}

\* C13: when generate_code meets an instruction or operand combination the emitter
\* does not support, it returns to the caller an error value (with the offending
\* location and the reason) and does not panic.
C13_UnsupportedReturnsError ==
    (PastRegisterMap /\ UnderTest \in UnsupportedInstructions) =>
        (pc = "error" /\ failure # "")

\* v mod 2^w, zero-extended to 64 bits, for the width w of type t
TruncateTo(v, t) ==
    CASE t \in {"U8", "I8"} -> <<v[1] % 256, 0, 0, 0>>
      [] t \in {"U16", "I16"} -> <<v[1], 0, 0, 0>>
      [] t \in {"U32", "I32"} -> <<v[1], v[2], 0, 0>>
      [] OTHER -> v

\* (v1 + v2) mod 2^w, respectively (v1 - v2) mod 2^w, for the instruction under test
FoldedConstant ==
    LET a == Word(UnderTest.src1.value)
        b == Word(UnderTest.src2.value)
    IN TruncateTo(IF UnderTest.op = "Add" THEN Add64(a, b) ELSE Sub64(a, b), UnderTest.src1.type)

\* C14: for Add and Subtract of two immediates of the same width w, for all payloads
\* (v1 < v2 for Subtract and sums past the width included), code generation succeeds
\* and the destination machine register holds (v1 + v2) mod 2^w, respectively
\* (v1 - v2) mod 2^w, zero-extended.
C14_FoldedImmediates ==
    UnderTest \in FoldedInstructions =>
        /\ PastRegisterMap => pc # "panic"
        /\ pc = "returned" => cpu.regs[reg_map[UnderTest.dest_register]] = FoldedConstant

\* C17: for PrintConstant the length passed to the host print function is the
\* constant's byte length truncated to one byte (len mod 256), and code generation
\* succeeds whatever the length.
C17_LengthTruncatedToByte ==
    UnderTest.op = "PrintConstant" =>
        /\ PastRegisterMap => pc # "panic"
        /\ \A i \in 1..Len(cpu.out) :
              cpu.out[i].len = Word(Len(EmitConstants[UnderTest.constant_ref + 1]) % 256)

----------------------------------------------------------------------------
(* Claims about what finalize rejects, under SpecFinalize *)

\* Some block B reads a register defined in a block A, both reached from the entry,
\* where neither A dominates B nor B dominates A
DominanceViolatingUse(bs) ==
    LET doms == simple_fast(GraphFrom(bs, 0, <<>>), 0)
    IN \E r \in Range(AllDefinitions(bs)) : \E B \in BlockIndices(bs) :
          LET A == DefineMap(bs)[r]
          IN /\ r \in iter_used_registers(bs[B + 1].code)
             /\ A # B
             /\ A \in DOMAIN doms /\ B \in DOMAIN doms
             /\ A \notin doms[B] /\ B \notin doms[A]

\* C12: when a block uses a register defined in a block that does not dominate it (A
\* and B, neither dominating the other, B reading a register defined in A), finalize
\* returns a construction error: it does not return normally.
C12_DominanceViolationRejected ==
    DominanceViolatingUse(blocks) => ~Finalized

----------------------------------------------------------------------------
(* Claims about programs with declared parents, under SpecDeclared *)

\* C21: after compute_register_map, every virtual register defined in a block that is
\* reachable from the entry in the CFG graph (edges from exits and from declared
\* parents) has an entry in the register map.
C21_ReachableDefinitionsMapped ==
    pc = "mapped" =>
        \A b \in Reach(graph_data.graph, graph_data.root) :
            Range(iter_defined_registers(blocks[b + 1].code)) \subseteq DOMAIN reg_map

----------------------------------------------------------------------------
(* Claims about the depth map, under SpecGraph *)

\* The nodes at most k edges away from the nodes of ns
RECURSIVE Within(_, _, _)
Within(g, ns, k) == IF k = 0 THEN ns ELSE Within(g, ns \cup Succ(g, ns), k - 1)

\* The breadth-first depth of a node n reachable from root: the length of a shortest path
BfsDepth(g, root, n) ==
    MinOf({k \in 0..Len(g) : n \in Within(g, {root}, k)})

\* C22: for every block reachable from the entry, the depth map holds its breadth-first
\* depth from the entry: 0 for the entry, g + 1 for a block first discovered from a
\* block traversed at generation g.
C22_DepthIsBfsDepth ==
    pc = "graph" =>
        \A n \in Reach(graph_data.graph, graph_data.root) :
            /\ n \in DOMAIN graph_data.depth_map
            /\ graph_data.depth_map[n] = BfsDepth(graph_data.graph, graph_data.root, n)

----------------------------------------------------------------------------
(* Claims about registers that are never read, under SpecAlloc *)

\* The registers some instruction defines and no instruction reads
UnreadRegisters == DefinedRegisters \ AllUsedRegisters(blocks)

\* The call of build_register_map_inner that ran last entered the block defining r
DefiningBlockVisited(r) == DefBlock(r) \in seen /\ visit.cur_idx = DefBlock(r)

\* C23: for a register that is defined and never read, the visit of its defining block
\* completes without failing and releases the register's machine register at the exit
\* of that block (is_live_out(r, def(r)) is false).
C23_UnreadRegisterReleased ==
    \A r \in UnreadRegisters :
        DefiningBlockVisited(r) =>
            /\ failure = ""
            /\ r \notin DOMAIN visit.current_map
            /\ reg_map[r] \in Range(visit.available_registers)

----------------------------------------------------------------------------
(* Claims about the stack of the emitted function, under SpecExec *)

\* The registers the claim names as restored by the epilogue
RestoredRegisters == {Rbp, Rbx, Rdi, Rsi}

\* C24: when the emitted function executes ret, whatever its path through loops and
\* PrintConstant instructions, the stack pointer is at the return address (so that it
\* is just above it on return) and rbp, rbx, rdi and rsi hold their values from entry.
C24_StackBalancedAtReturn ==
    pc = "returned" =>
        /\ cpu.regs[Rsp] = Add64(EntryRsp, Word(8))
        /\ \A r \in RestoredRegisters : cpu.regs[r] = CallerWord(r)

----------------------------------------------------------------------------
(* Claims about stack slots, under SpecStack *)

\* The value the client stored through the first pointer of TwoAllocas
StoredThroughFirst == blocks[1].code[3].src_register.value

\* The machine register that holds what the Load through the first pointer read; no
\* later instruction of the function writes it
LoadedThroughFirst == cpu.regs[reg_map[blocks[1].code[5].dest_register.idx]]

\* C25: two Alloca instructions of one function give pointers to storage that does not
\* overlap: after a Store through the second pointer, a Load through the first still
\* reads the value stored through the first.
C25_AllocasDoNotOverlap ==
    pc = "returned" => LoadedThroughFirst = Word(StoredThroughFirst)

====
